---- MODULE Spec2Model ----
(***************************************************************************)
(* nano-banana-gif-generator: the frame sequence planner (classifier and   *)
(* per-frame prompt builders) and the GIF run (CLI -> GifGenerator ->      *)
(* SequenceGenerator -> NanoBananaIntegration -> CanvasGifAssembler).      *)
(*                                                                         *)
(* JavaScript strings are TLA+ strings; numbers that can be NaN are        *)
(* records [nan, v]; a thrown error is a control state of the run.         *)
(***************************************************************************)
EXTENDS Integers, Sequences, FiniteSets, TLC

VARIABLES
    \* ---- inputs ----
    basePrompt,     \* the prompt the operation is applied to
    planFrames,     \* the frameCount a planner operation is applied to
    kind,           \* the entry point: "plan", "gif", "multi", "frames",
                    \* "legacy", "assemble", "style", "session"
    opts,           \* the command line options the caller passed
    types,          \* the animationTypes argument of generateMultipleGifs
    stub,           \* the stub backend: the frame indices it fails for
    env,            \* the environment: API keys set, fallback services that
                    \* fail, files that cannot be decoded, output writable
    \* ---- planner ----
    planOut,        \* result of the planner operation applied
    \* ---- GIF run ----
    pc,             \* control position of the run
    req,            \* the options generateAnimatedGif / the frame loop run with
    t,              \* loop index of generateMultipleGifs
    i,              \* loop index of the frame loop
    calls,          \* generateImage calls made so far, in order
    inFlight,       \* calls (positions in calls) entered and not yet settled
    requests,       \* calls (positions in calls) that reached the backend
    failed,         \* calls (positions in calls) that ended in the catch block
    framePaths,     \* the framePaths array of the frame loop
    files,          \* files on disk
    dirs,           \* directories created
    assembler,      \* the createGif invocations made so far
    results,        \* the results array of generateMultipleGifs
    tried,          \* legacy generator: the backends tried for each frame
    session,        \* the iterative session object, its pending call and
                    \* the calls settled so far
    result          \* what the entry point returned / how the process ended

inputVars == <<basePrompt, planFrames, kind, opts, types, stub, env>>
runVars == <<pc, req, t, i, calls, inFlight, requests, failed, framePaths, files,
             dirs, assembler, results, tried, session, result>>
vars == <<basePrompt, planFrames, kind, opts, types, stub, env, planOut, pc, req, t, i,
          calls, inFlight, requests, failed, framePaths, files, dirs, assembler,
          results, tried, session, result>>

----------------------------------------------------------------------------
(* Bounds of the model *)

\* prompts are built from at most this many words
MaxWords == 2
\* frame counts given directly to generateAnimationFrames: 1..MaxFrames
MaxFrames == 4
\* frame paths per createGif call
MaxPaths == 3

(* Program constants *)

MinFrameCount == 2
MaxFrameCount == 20
MinDelay == 100
MaxDelay == 2000
MinQuality == 1
MaxQuality == 100
maxRetries == 3
defaultFrames == 5

----------------------------------------------------------------------------
(* JavaScript helpers *)

\* String.prototype.includes
Includes(s, k) ==
    \E p \in 1..(Len(s) - Len(k) + 1) : SubSeq(s, p, p + Len(k) - 1) = k

LowerChar(c) ==
    CASE c = "A" -> "a" [] c = "B" -> "b" [] c = "C" -> "c" [] c = "D" -> "d"
      [] c = "E" -> "e" [] c = "F" -> "f" [] c = "G" -> "g" [] c = "H" -> "h"
      [] c = "I" -> "i" [] c = "J" -> "j" [] c = "K" -> "k" [] c = "L" -> "l"
      [] c = "M" -> "m" [] c = "N" -> "n" [] c = "O" -> "o" [] c = "P" -> "p"
      [] c = "Q" -> "q" [] c = "R" -> "r" [] c = "S" -> "s" [] c = "T" -> "t"
      [] c = "U" -> "u" [] c = "V" -> "v" [] c = "W" -> "w" [] c = "X" -> "x"
      [] c = "Y" -> "y" [] c = "Z" -> "z" [] OTHER -> c

\* String.prototype.toLowerCase
RECURSIVE toLowerCase(_)
toLowerCase(s) ==
    IF Len(s) = 0 THEN ""
    ELSE LowerChar(SubSeq(s, 1, 1)) \o toLowerCase(SubSeq(s, 2, Len(s)))

\* a JavaScript number that may be NaN
Num(n) == [nan |-> FALSE, v |-> n]
NaN == [nan |-> TRUE, v |-> 0]

\* a number inside a template literal
NumStr(x) == IF x.nan THEN "NaN" ELSE ToString(x.v)

\* Math.round(num / den) for num >= 0; 0/0 is NaN
RoundDiv(num, den) ==
    IF den = 0 THEN NaN ELSE Num((2 * num + den) \div (2 * den))

\* Math.floor(num / den) for num >= 0; 0/0 is NaN
FloorDiv(num, den) ==
    IF den = 0 THEN NaN ELSE Num(num \div den)

\* phases[index]: an index that is NaN or past the end reads undefined
At(list, x) ==
    IF ~x.nan /\ x.v \in 0..(Len(list) - 1) THEN list[x.v + 1] ELSE "undefined"

----------------------------------------------------------------------------
(* Animation intent classifier: AnimationUtils.detectAnimationType *)

WALKING == "walking"
FLYING == "flying"
DANCING == "dancing"
TRANSFORMATION == "transformation"
FLOWING == "flowing"
ROTATING == "rotating"
GENERAL == "general"

animationTypes ==
    {WALKING, FLYING, DANCING, TRANSFORMATION, FLOWING, ROTATING, GENERAL}

detectAnimationType_swapped(prompt) ==
    LET lowerPrompt == toLowerCase(prompt) IN
    IF Includes(lowerPrompt, "fly") \/ Includes(lowerPrompt, "flying")
        \/ Includes(lowerPrompt, "soar")
    THEN FLYING
    ELSE IF Includes(lowerPrompt, "walk") \/ Includes(lowerPrompt, "running")
        \/ Includes(lowerPrompt, "moving")
    THEN WALKING
    ELSE IF Includes(lowerPrompt, "dance") \/ Includes(lowerPrompt, "dancing")
    THEN DANCING
    ELSE IF Includes(lowerPrompt, "grow") \/ Includes(lowerPrompt, "bloom")
        \/ Includes(lowerPrompt, "transform")
    THEN TRANSFORMATION
    ELSE IF Includes(lowerPrompt, "wave") \/ Includes(lowerPrompt, "ocean")
        \/ Includes(lowerPrompt, "water")
    THEN FLOWING
    ELSE IF Includes(lowerPrompt, "spin") \/ Includes(lowerPrompt, "rotate")
        \/ Includes(lowerPrompt, "turn")
    THEN ROTATING
    ELSE GENERAL

detectAnimationType(prompt) ==
    LET lowerPrompt == toLowerCase(prompt) IN
    IF Includes(lowerPrompt, "walk") \/ Includes(lowerPrompt, "running")
        \/ Includes(lowerPrompt, "moving")
    THEN WALKING
    ELSE IF Includes(lowerPrompt, "fly") \/ Includes(lowerPrompt, "flying")
        \/ Includes(lowerPrompt, "soar")
    THEN FLYING
    ELSE IF Includes(lowerPrompt, "dance") \/ Includes(lowerPrompt, "dancing")
    THEN DANCING
    ELSE IF Includes(lowerPrompt, "grow") \/ Includes(lowerPrompt, "bloom")
        \/ Includes(lowerPrompt, "transform")
    THEN TRANSFORMATION
    ELSE IF Includes(lowerPrompt, "wave") \/ Includes(lowerPrompt, "ocean")
        \/ Includes(lowerPrompt, "water")
    THEN FLOWING
    ELSE IF Includes(lowerPrompt, "spin") \/ Includes(lowerPrompt, "rotate")
        \/ Includes(lowerPrompt, "turn")
    THEN ROTATING
    ELSE GENERAL

----------------------------------------------------------------------------
(* Frame sequence planner: AnimationUtils.createFramePrompt and            *)
(* AnimationUtils.generateFramePrompts                                     *)

\* progress = i / (frameCount - 1), kept as the fraction it is
Progress(index, frameCount) == [num |-> index, den |-> frameCount - 1]

\* the percent truncated instead of rounded
progressPercent_truncated(progress) == FloorDiv(100 * progress.num, progress.den)

\* Math.round(progress * 100)
progressPercent(progress) == RoundDiv(100 * progress.num, progress.den)

walkCycle == <<"left foot forward", "mid-stride", "right foot forward", "mid-stride">>
flyPositions == <<"wings up", "wings mid-flap", "wings down", "wings mid-flap">>
dancePositions == <<"arms up", "arms to side", "arms down", "arms crossed">>
waveHeights == <<"low wave", "rising wave", "high wave", "falling wave">>
positions == <<"center position", "slightly left", "slightly right", "back to center">>

\* the index clamped to the end of the list instead of wrapped
Cycle_clamped(list, frameIndex) ==
    list[IF frameIndex < Len(list) THEN frameIndex + 1 ELSE Len(list)]

\* list[frameIndex % list.length]
Cycle(list, frameIndex) == list[(frameIndex % Len(list)) + 1]

\* the angle taken from the progress i / (N - 1) instead of i / N
rotationAngle_byProgress(frameIndex, totalFrames) ==
    RoundDiv(frameIndex * 360, totalFrames - 1)

\* Math.round(frameIndex * 360 / totalFrames)
rotationAngle(frameIndex, totalFrames) == RoundDiv(frameIndex * 360, totalFrames)

createFramePrompt(prompt, animationType, frameIndex, totalFrames, progress) ==
    CASE animationType = WALKING ->
            prompt \o ", " \o Cycle(walkCycle, frameIndex) \o ", step "
                \o ToString(frameIndex + 1)
                \o " of walking cycle, consistent character and background"
      [] animationType = FLYING ->
            prompt \o ", " \o Cycle(flyPositions, frameIndex) \o ", flight position "
                \o ToString(frameIndex + 1) \o ", same character and environment"
      [] animationType = DANCING ->
            prompt \o ", " \o Cycle(dancePositions, frameIndex) \o ", dance pose "
                \o ToString(frameIndex + 1) \o ", same dancer and setting"
      [] animationType = TRANSFORMATION ->
            IF frameIndex = 0
            THEN prompt \o ", initial state, beginning of transformation"
            ELSE IF frameIndex = totalFrames - 1
            THEN prompt \o ", final state, transformation complete"
            ELSE prompt \o ", " \o NumStr(progressPercent(progress))
                    \o "% transformed, mid-transformation stage "
                    \o ToString(frameIndex)
      [] animationType = FLOWING ->
            prompt \o ", " \o Cycle(waveHeights, frameIndex) \o ", wave motion frame "
                \o ToString(frameIndex + 1) \o ", consistent water and scene"
      [] animationType = ROTATING ->
            prompt \o ", rotated " \o NumStr(rotationAngle(frameIndex, totalFrames))
                \o " degrees, rotation frame " \o ToString(frameIndex + 1)
                \o ", same object and background"
      [] OTHER ->
            prompt \o ", " \o Cycle(positions, frameIndex) \o ", frame "
                \o ToString(frameIndex + 1) \o " of " \o ToString(totalFrames)
                \o ", consistent scene and lighting"

generateFramePrompts(prompt, frameCount) ==
    LET animationType == detectAnimationType(prompt) IN
    [k \in 1..frameCount |->
        createFramePrompt(prompt, animationType, k - 1, frameCount,
                          Progress(k - 1, frameCount))]

----------------------------------------------------------------------------
(* SequenceGenerator.createFramePrompt and its motion prompt helpers       *)

\* progress = (frameIndex / (totalFrames - 1)) * 100, kept as a fraction
\* of 100: progress / 100 = num / den
SeqProgress(frameIndex, totalFrames) == [num |-> frameIndex, den |-> totalFrames - 1]

\* Math.floor((progress / 100) * phases.length)
phaseIndex(progress, phases) == FloorDiv(progress.num * Len(phases), progress.den)

walkingPhases ==
    <<"left foot forward, right foot back", "mid-step, both feet off ground",
      "right foot forward, left foot back", "mid-step, both feet off ground",
      "left foot forward, right foot back">>
flyingPhases ==
    <<"wings up, ascending motion", "wings mid-beat, soaring", "wings down, gliding",
      "wings mid-beat, soaring", "wings up, ascending motion">>
dancingPhases ==
    <<"arms up, left foot forward", "twisting motion, arms flowing",
      "arms down, right foot forward", "spinning motion, arms flowing",
      "arms up, left foot forward">>
transformationPhases ==
    <<"beginning transformation, subtle changes", "mid-transformation, morphing shape",
      "peak transformation, dramatic change", "mid-transformation, morphing shape",
      "completing transformation, final form">>
flowingPhases ==
    <<"gentle wave motion, calm flow", "building wave, increasing energy",
      "peak wave, maximum flow", "building wave, increasing energy",
      "gentle wave motion, calm flow">>
generalPhases ==
    <<"starting position, initial movement", "building momentum, mid-motion",
      "peak action, maximum movement", "building momentum, mid-motion",
      "completing action, final position">>

getWalkingMotionPrompt(progress) ==
    "walking motion: " \o At(walkingPhases, phaseIndex(progress, walkingPhases))
        \o ", natural gait, dynamic pose"
getFlyingMotionPrompt(progress) ==
    "flying motion: " \o At(flyingPhases, phaseIndex(progress, flyingPhases))
        \o ", graceful flight, dynamic wing movement"
getDancingMotionPrompt(progress) ==
    "dancing motion: " \o At(dancingPhases, phaseIndex(progress, dancingPhases))
        \o ", rhythmic movement, expressive pose"
getTransformationPrompt(progress) ==
    "transformation: "
        \o At(transformationPhases, phaseIndex(progress, transformationPhases))
        \o ", magical morphing, fluid change"
\* Math.round((progress / 100) * 360)
getRotatingPrompt(progress) ==
    "rotating motion: " \o NumStr(RoundDiv(progress.num * 360, progress.den))
        \o " degrees, spinning movement, dynamic rotation"
getFlowingPrompt(progress) ==
    "flowing motion: " \o At(flowingPhases, phaseIndex(progress, flowingPhases))
        \o ", fluid movement, natural flow"
getGeneralMotionPrompt(progress) ==
    "motion: " \o At(generalPhases, phaseIndex(progress, generalPhases))
        \o ", dynamic movement, natural progression"

\* the switch on animationType.toLowerCase()
motionPrompt(animationType, progress) ==
    LET lower == toLowerCase(animationType) IN
    CASE lower = "walking" -> getWalkingMotionPrompt(progress)
      [] lower = "flying" -> getFlyingMotionPrompt(progress)
      [] lower = "dancing" -> getDancingMotionPrompt(progress)
      [] lower = "transformation" -> getTransformationPrompt(progress)
      [] lower = "rotating" -> getRotatingPrompt(progress)
      [] lower = "flowing" -> getFlowingPrompt(progress)
      [] OTHER -> getGeneralMotionPrompt(progress)

SequenceGenerator_createFramePrompt(prompt, frameIndex, totalFrames, animationType) ==
    prompt \o ", " \o motionPrompt(animationType, SeqProgress(frameIndex, totalFrames))
        \o ", frame " \o ToString(frameIndex + 1) \o " of " \o ToString(totalFrames)
        \o ", consistent character and background, smooth animation sequence, cinematic quality"

----------------------------------------------------------------------------
(* NanoBananaIntegration.createFramePrompt and its own classifier          *)

Integration_detectAnimationType(prompt) ==
    LET lowerPrompt == toLowerCase(prompt) IN
    IF Includes(lowerPrompt, "walk") \/ Includes(lowerPrompt, "running")
        \/ Includes(lowerPrompt, "moving")
    THEN "walking"
    ELSE IF Includes(lowerPrompt, "fly") \/ Includes(lowerPrompt, "flying")
        \/ Includes(lowerPrompt, "soar")
    THEN "flying"
    ELSE IF Includes(lowerPrompt, "dance") \/ Includes(lowerPrompt, "dancing")
    THEN "dancing"
    ELSE IF Includes(lowerPrompt, "grow") \/ Includes(lowerPrompt, "bloom")
        \/ Includes(lowerPrompt, "transform")
    THEN "transformation"
    ELSE "general"

Integration_createFramePrompt(prompt, frameIndex, totalFrames, progress) ==
    LET animationType == Integration_detectAnimationType(prompt) IN
    CASE animationType = "walking" ->
            prompt \o ", " \o Cycle(walkCycle, frameIndex) \o ", step "
                \o ToString(frameIndex + 1)
                \o " of walking cycle, consistent character and background"
      [] animationType = "flying" ->
            prompt \o ", " \o Cycle(flyPositions, frameIndex) \o ", flight position "
                \o ToString(frameIndex + 1) \o ", same character and environment"
      [] animationType = "dancing" ->
            prompt \o ", " \o Cycle(dancePositions, frameIndex) \o ", dance pose "
                \o ToString(frameIndex + 1) \o ", same dancer and setting"
      [] animationType = "transformation" ->
            IF frameIndex = 0
            THEN prompt \o ", initial state, beginning of transformation"
            ELSE IF frameIndex = totalFrames - 1
            THEN prompt \o ", final state, transformation complete"
            ELSE prompt \o ", " \o NumStr(progressPercent(progress))
                    \o "% transformed, mid-transformation stage "
                    \o ToString(frameIndex)
      [] OTHER ->
            prompt \o ", " \o Cycle(positions, frameIndex) \o ", frame "
                \o ToString(frameIndex + 1) \o " of " \o ToString(totalFrames)
                \o ", consistent scene and lighting"

\* NanoBananaIntegration.createAnimationStylePrompt
walkStyles == <<"dynamic pose", "mid-motion blur", "dynamic pose", "motion trail">>
flyStyles == <<"wings extended up", "motion blur", "wings extended down", "motion trail">>
danceStyles == <<"elegant pose", "motion blur", "dynamic movement", "graceful flow">>
generalStyles == <<"static pose", "subtle motion", "dynamic pose", "flowing movement">>

createAnimationStylePrompt(baseAnimationPrompt, frameIndex, totalFrames, progress) ==
    LET animationType == Integration_detectAnimationType(baseAnimationPrompt) IN
    CASE animationType = "walking" ->
            baseAnimationPrompt \o ", " \o Cycle(walkStyles, frameIndex) \o ", step "
                \o ToString(frameIndex + 1)
                \o " of walking cycle, consistent character and background"
      [] animationType = "flying" ->
            baseAnimationPrompt \o ", " \o Cycle(flyStyles, frameIndex)
                \o ", flight position " \o ToString(frameIndex + 1)
                \o ", same character and environment"
      [] animationType = "dancing" ->
            baseAnimationPrompt \o ", " \o Cycle(danceStyles, frameIndex)
                \o ", dance pose " \o ToString(frameIndex + 1)
                \o ", same dancer and setting"
      [] animationType = "transformation" ->
            IF frameIndex = 0
            THEN baseAnimationPrompt
                    \o ", initial state, beginning of transformation, original style"
            ELSE IF frameIndex = totalFrames - 1
            THEN baseAnimationPrompt
                    \o ", final state, transformation complete, new style fully applied"
            ELSE baseAnimationPrompt \o ", " \o NumStr(progressPercent(progress))
                    \o "% transformed, mid-transformation stage "
                    \o ToString(frameIndex) \o ", mixed styles"
      [] OTHER ->
            baseAnimationPrompt \o ", " \o Cycle(generalStyles, frameIndex) \o ", frame "
                \o ToString(frameIndex + 1) \o " of " \o ToString(totalFrames)
                \o ", consistent scene and lighting"

\* the prompt imageToImageGeneration hands to imageEditing
enhancedPrompt(stylePrompt) ==
    "Transform this image with the following style: " \o stylePrompt
        \o ". Maintain the main subject but apply the new style."

----------------------------------------------------------------------------
(* Command line: commander options and their parsing in handleGenerate     *)

DigitVal(c) ==
    CASE c = "0" -> 0 [] c = "1" -> 1 [] c = "2" -> 2 [] c = "3" -> 3
      [] c = "4" -> 4 [] c = "5" -> 5 [] c = "6" -> 6 [] c = "7" -> 7
      [] c = "8" -> 8 [] c = "9" -> 9 [] OTHER -> -1

\* the leading decimal digits of s from position p on: [n, any]
RECURSIVE LeadingDigits(_, _, _, _)
LeadingDigits(s, p, acc, any) ==
    IF p > Len(s) \/ DigitVal(SubSeq(s, p, p)) < 0
    THEN [n |-> acc, any |-> any]
    ELSE LeadingDigits(s, p + 1, 10 * acc + DigitVal(SubSeq(s, p, p)), TRUE)

RECURSIVE SkipSpaces(_, _)
SkipSpaces(s, p) ==
    IF p <= Len(s) /\ SubSeq(s, p, p) = " " THEN SkipSpaces(s, p + 1) ELSE p

\* parseInt(s): leading blanks, an optional sign, then decimal digits; NaN
\* when no digit follows (the option strings drawn here carry no 0x prefix)
parseInt(s) ==
    LET p == SkipSpaces(s, 1)
        signed == p <= Len(s) /\ SubSeq(s, p, p) \in {"-", "+"}
        neg == signed /\ SubSeq(s, p, p) = "-"
        d == LeadingDigits(s, IF signed THEN p + 1 ELSE p, 0, FALSE)
    IN  IF ~d.any THEN NaN ELSE Num(IF neg THEN 0 - d.n ELSE d.n)

\* x || fallback on a number: NaN and 0 are falsy
OrDefault(x, fallback) == IF x.nan \/ x.v = 0 THEN fallback ELSE x.v

\* a commander option: the value passed, or the declared default
Option(arg, default) == IF arg = <<>> THEN default ELSE arg[1]

\* the option object commander hands to handleGenerate (--gif given)
CommanderOptions(argv) ==
    [frames |-> Option(argv.frames, "5"),
     delay |-> Option(argv.delay, "500"),
     animation |-> Option(argv.animation, "general"),
     width |-> "512",
     height |-> "512",
     quality |-> Option(argv.quality, "80"),
     keepFrames |-> argv.keepFrames]

\* the options handleGenerate passes to GifCommands.generateGif
handleGenerate_options(options) ==
    [frameCount |-> OrDefault(parseInt(options.frames), 5),
     animationType |-> IF options.animation = "" THEN "general" ELSE options.animation,
     width |-> OrDefault(parseInt(options.width), 512),
     height |-> OrDefault(parseInt(options.height), 512),
     delay |-> OrDefault(parseInt(options.delay), 500),
     quality |-> OrDefault(parseInt(options.quality), 80),
     keepFrames |-> options.keepFrames]

\* the values handleStyleAnimation parses from its options
handleStyleAnimation_options(options) ==
    [frameCount |-> OrDefault(parseInt(options.frames), 5),
     animationType |-> "style-animation",
     width |-> OrDefault(parseInt(options.width), 512),
     height |-> OrDefault(parseInt(options.height), 512),
     delay |-> OrDefault(parseInt(options.delay), 500),
     quality |-> 0,
     keepFrames |-> FALSE]

----------------------------------------------------------------------------
(* File system and paths *)

\* await fs.mkdir(dir, {recursive: true}) on the callback API of node:fs,
\* called without a callback: it throws before making the directory and the
\* surrounding try/catch swallows the error
fs_mkdir(ds, dir) == ds

\* fs.mkdirSync(dir, {recursive: true}) when the directory does not exist
fs_mkdirSync(ds, dir) == ds \cup {dir}

\* String(i).padStart(width, '0')
padStart(n, width) ==
    IF width = 3 /\ n < 10 THEN "00" \o ToString(n)
    ELSE IF n < 10 \/ (width = 3 /\ n < 100) THEN "0" \o ToString(n)
    ELSE ToString(n)

\* path.join(outputDir, `frame_${i.toString().padStart(2, '0')}_${timestamp}.png`)
SequenceFramePath(index) == "output/frames/frame_" \o padStart(index, 2) \o "_T.png"

\* path.join(outputDir, `frame_${String(i).padStart(3, '0')}_${Date.now()}.png`)
IntegrationFramePath(index) == "output/frames/frame_" \o padStart(index, 3) \o "_T.png"

\* path.join(outputDir, `style_frame_${String(i).padStart(3, '0')}_${Date.now()}.png`)
\* with outputDir = CONFIG.tempDir
StyleFramePath(index) == "temp/style_frame_" \o padStart(index, 3) \o "_T.png"

\* the <image-path> argument of the style-animation command
ReferenceImage == "reference.png"

\* path.join(gifsDir, `${safePrompt}_${animationType}_${timestamp}.gif`)
GifPath(animationType) == "output/gifs/prompt_" \o animationType \o "_T.gif"

----------------------------------------------------------------------------
(* CanvasGifAssembler.createGif and GifGenerator.getOptimalSettings        *)

getOptimalSettings(frameCount) ==
    IF frameCount <= 3 THEN [delay |-> 800, quality |-> 90]
    ELSE IF frameCount <= 5 THEN [delay |-> 600, quality |-> 85]
    ELSE IF frameCount <= 8 THEN [delay |-> 400, quality |-> 80]
    ELSE [delay |-> 300, quality |-> 75]

\* an option the caller left out of the options object
Omitted == [given |-> FALSE, v |-> 0]
Given(n) == [given |-> TRUE, v |-> n]

\* a destructuring default: it applies when the property is undefined
Default(option, value) == IF option.given THEN option.v ELSE value

\* the delay and quality generateAnimatedGif hands to createGif and repeats
\* in result.settings: `delay || gifSettings.delay`, `quality ||
\* gifSettings.quality`, after the destructuring
createGif_settings(frameCount, delay, quality) ==
    LET gifSettings == getOptimalSettings(frameCount) IN
    [delay |-> IF delay # 0 THEN delay ELSE gifSettings.delay,
     quality |-> IF quality # 0 THEN quality ELSE gifSettings.quality]

\* the delay and quality options generateAnimatedGif is tried with
SettingDelays == {Omitted, Given(0), Given(100), Given(600), Given(1000)}
SettingQualities == {Omitted, Given(0), Given(50), Given(85)}

\* the second bucket starting one frame late
GifAssembler_getOptimalSettings_shifted(frameCount) ==
    IF frameCount <= 4 THEN [delay |-> 800, quality |-> 90]
    ELSE getOptimalSettings(frameCount)

\* GifAssembler.getOptimalSettings, the copy in the sharp/canvas assembler
GifAssembler_getOptimalSettings(frameCount) ==
    IF frameCount <= 3 THEN [delay |-> 800, quality |-> 90]
    ELSE IF frameCount <= 5 THEN [delay |-> 600, quality |-> 85]
    ELSE IF frameCount <= 8 THEN [delay |-> 400, quality |-> 80]
    ELSE [delay |-> 300, quality |-> 75]

\* the frames createGif appends: a path that does not exist is skipped and
\* so is a file whose processing (sharp, loadImage) throws
createGif_frames(imagePaths, disk, corrupt) ==
    SelectSeq(imagePaths, LAMBDA path : path \in disk /\ path \notin corrupt)

\* cleanup(filePaths): every listed file that exists is unlinked
cleanup(disk, filePaths) == disk \ {filePaths[k] : k \in 1..Len(filePaths)}

----------------------------------------------------------------------------
(* Inputs of the planner *)

Words ==
    {"Walk", "running", "moving", "FLY", "flying", "soar", "Dance", "dancing",
     "grow", "bloom", "Transform", "wave", "ocean", "WATER", "spin", "rotate",
     "turn", "butterfly", "cat", "a"}

\* AnimationUtils.validateAnimationParams(params): params.prompt is a record
\* [type, v] (typeof and value), params.frames and params.delay are numbers;
\* a number is truthy unless it is 0
validateAnimationParams(params) ==
    LET promptError ==
            IF params.prompt.v = "" \/ params.prompt.type # "string"
            THEN <<"Prompt is required and must be a string">> ELSE <<>>
        framesError ==
            IF params.frames # 0
               /\ (params.frames < MinFrameCount \/ params.frames > MaxFrameCount)
            THEN <<"Frame count must be between 2 and 20">> ELSE <<>>
        delayError ==
            IF params.delay # 0 /\ (params.delay < MinDelay \/ params.delay > MaxDelay)
            THEN <<"Delay must be between 100ms and 2000ms">> ELSE <<>>
        errors == promptError \o framesError \o delayError
    IN  [isValid |-> Len(errors) = 0, errors |-> errors]

\* the parameters validateAnimationParams is tried with
ParamFrames == {-3, -1, 0, 1, 2, 5, 20, 21, 25}
ParamDelays == {-100, 0, 50, 99, 100, 500, 2000, 2001}
ParamPrompts(prompt) ==
    {[type |-> "string", v |-> prompt], [type |-> "string", v |-> ""],
     [type |-> "undefined", v |-> ""]}

RECURSIVE Join(_)
Join(ws) == IF Len(ws) = 1 THEN ws[1] ELSE ws[1] \o " " \o Join(Tail(ws))

\* every prompt of 1..MaxWords words
Prompts == {Join(ws) : ws \in UNION {[1..n -> Words] : n \in 1..MaxWords}}

\* the prompts every frame count is tried with
SamplePrompts ==
    {"a cat walking", "a flower", "a bird flying", "a dancer dancing",
     "a flower blooming", "ocean waves", "a spinning top"}

\* no planner operation has been applied to the inputs yet
NoPlan == [op |-> "none", type |-> "", index |-> 0, total |-> 0, out |-> <<>>]

NoArgv ==
    [frames |-> <<>>, delay |-> <<>>, quality |-> <<>>, animation |-> <<>>,
     keepFrames |-> FALSE]

NoReq ==
    [frameCount |-> 0, animationType |-> "", width |-> 0, height |-> 0,
     delay |-> 0, quality |-> 0, keepFrames |-> FALSE]

NoResult == [status |-> "none", gifPath |-> "", framePaths |-> <<>>, frameCount |-> 0]

\* no session call is pending
NoPending ==
    [op |-> "none", prompt |-> "", iterations |-> <<>>, currentImage |-> "null"]

\* the session object createIterativeSession returns for the given options
\* (null is the string "null"), with no call pending and none settled
NewSession(aspectRatio) ==
    [aspectRatio |-> aspectRatio, iterations |-> <<>>, currentImage |-> "null",
     pending |-> NoPending, settled |-> <<>>]

\* no session exists
NoSession == NewSession("")

\* no API key but the Gemini one, no failing service, every file decodable,
\* the output path writable
NoEnv == [keys |-> {"gemini"}, down |-> {}, corrupt |-> {}, writable |-> TRUE]

\* the run is not started in the planner specification
IdleRun ==
    /\ kind = "plan"
    /\ opts = NoArgv
    /\ types = <<>>
    /\ stub = {}
    /\ env = NoEnv
    /\ pc = "idle"
    /\ req = NoReq
    /\ t = 0
    /\ i = 0
    /\ calls = <<>>
    /\ inFlight = {}
    /\ requests = <<>>
    /\ failed = {}
    /\ framePaths = <<>>
    /\ files = {}
    /\ dirs = {}
    /\ assembler = <<>>
    /\ results = <<>>
    /\ tried = <<>>
    /\ session = NoSession
    /\ result = NoResult

InitPlan ==
    /\ \/ basePrompt \in Prompts /\ planFrames = defaultFrames
       \/ basePrompt \in SamplePrompts /\ planFrames \in 1..MaxFrameCount
    /\ planOut = NoPlan
    /\ IdleRun

\* AnimationUtils.detectAnimationType(basePrompt)
PlanDetect ==
    /\ planOut = NoPlan
    /\ planOut' = [op |-> "detectAnimationType", type |-> detectAnimationType(basePrompt),
                   index |-> 0, total |-> 0, out |-> <<>>]
    /\ UNCHANGED <<inputVars, runVars>>

\* AnimationUtils.generateFramePrompts(basePrompt, planFrames)
PlanGenerate ==
    /\ planOut = NoPlan
    /\ planOut' = [op |-> "generateFramePrompts", type |-> detectAnimationType(basePrompt),
                   index |-> 0, total |-> planFrames,
                   out |-> generateFramePrompts(basePrompt, planFrames)]
    /\ UNCHANGED <<inputVars, runVars>>

\* AnimationUtils.createFramePrompt(basePrompt, type, index, planFrames, progress)
PlanCreate ==
    /\ planOut = NoPlan
    /\ \E type \in animationTypes, index \in 0..(planFrames - 1) :
          planOut' = [op |-> "createFramePrompt", type |-> type, index |-> index,
                      total |-> planFrames,
                      out |-> <<createFramePrompt(basePrompt, type, index, planFrames,
                                                  Progress(index, planFrames))>>]
    /\ UNCHANGED <<inputVars, runVars>>

\* SequenceGenerator.createFramePrompt(basePrompt, index, planFrames, type)
PlanSeqCreate ==
    /\ planOut = NoPlan
    /\ \E type \in animationTypes, index \in 0..(planFrames - 1) :
          planOut' = [op |-> "SequenceGenerator.createFramePrompt", type |-> type,
                      index |-> index, total |-> planFrames,
                      out |-> <<SequenceGenerator_createFramePrompt(
                                    basePrompt, index, planFrames, type)>>]
    /\ UNCHANGED <<inputVars, runVars>>

\* getOptimalSettings(planFrames) of GifGenerator and of GifAssembler
PlanSettings ==
    /\ planOut = NoPlan
    /\ planOut' = [op |-> "getOptimalSettings", type |-> "", index |-> 0,
                   total |-> planFrames,
                   out |-> <<getOptimalSettings(planFrames),
                             GifAssembler_getOptimalSettings(planFrames)>>]
    /\ UNCHANGED <<inputVars, runVars>>

\* AnimationUtils.validateAnimationParams({prompt, frames, delay})
PlanValidate ==
    /\ planOut = NoPlan
    /\ \E prompt \in ParamPrompts(basePrompt), frames \in ParamFrames,
          delay \in ParamDelays :
          LET params == [prompt |-> prompt, frames |-> frames, delay |-> delay] IN
          planOut' = [op |-> "validateAnimationParams", type |-> "", index |-> 0,
                      total |-> 0,
                      out |-> <<[params |-> params,
                                 result |-> validateAnimationParams(params)]>>]
    /\ UNCHANGED <<inputVars, runVars>>

\* GifGenerator.generateAnimatedGif(basePrompt, {frameCount: planFrames,
\* delay, quality}): the settings it assembles with and the ones it reports
PlanAssemblySettings ==
    /\ planOut = NoPlan
    /\ \E delay \in SettingDelays, quality \in SettingQualities :
          LET passed == createGif_settings(planFrames, Default(delay, 500),
                                           Default(quality, 80))
          IN  planOut' = [op |-> "generateAnimatedGif.settings", type |-> "",
                          index |-> 0, total |-> planFrames,
                          out |-> <<[delay |-> delay, quality |-> quality,
                                     createGif |-> passed, settings |-> passed]>>]
    /\ UNCHANGED <<inputVars, runVars>>

NextPlan ==
    PlanDetect \/ PlanGenerate \/ PlanCreate \/ PlanSeqCreate \/ PlanSettings
        \/ PlanValidate \/ PlanAssemblySettings

SpecPlan == InitPlan /\ [][NextPlan]_vars

----------------------------------------------------------------------------
(* The GIF run                                                             *)
(*   kind "gif":    CLICommands.handleGenerate --gif -> GifCommands        *)
(*                  .generateGif -> GifGenerator.generateAnimatedGif ->    *)
(*                  SequenceGenerator.generateSequence                     *)
(*   kind "multi":  GifGenerator.generateMultipleGifs, one                 *)
(*                  generateAnimatedGif per animation type                 *)
(*   kind "frames": NanoBananaIntegration.generateAnimationFrames          *)
(*   kind "legacy": GifGenerator.generateAnimatedGif of generator.js, with *)
(*                  its fallback chain of backends                         *)
(*   kind "assemble": createGif of CanvasGifAssembler or                   *)
(*                  SimpleGifAssembler called directly                     *)
(*   kind "style":  CLICommands.handleStyleAnimation ->                    *)
(*                  generateStyleAnimationFrames -> generateGifFromFrames  *)
(*   kind "session": refine() and reset() of createIterativeSession, each  *)
(*                  call awaited before the next is made                   *)
(* The backend is a stub that fails exactly for the frame indices in stub. *)

\* option values drawn for the command line; <<>> is an option not passed
FramesArgs == {<<>>, <<"3">>, <<"4">>, <<"0">>, <<"1">>, <<"25">>, <<"-2">>, <<"abc">>}
DelayArgs == {<<>>, <<"1000">>, <<"50">>, <<"0">>}
QualityArgs == {<<>>, <<"0">>, <<"101">>}
StyleFramesArgs == {<<>>, <<"2">>, <<"3">>, <<"0">>}
AnimationArgs == {<<>>, <<"walking">>, <<"Rotating">>}
RunPrompts == {"a cat walking", "a flower"}

\* animationTypes arguments drawn for generateMultipleGifs
TypeLists == {<<"walking", "flying", "dancing">>, <<"rotating", "general">>, <<"walking">>}

supportedAspectRatios ==
    {"1:1", "2:3", "3:2", "3:4", "4:3", "4:5", "5:4", "9:16", "16:9", "21:9"}

\* the options argument of a generateImage call
NullOptions == [isNull |-> TRUE, aspectRatio |-> "", outputPath |-> ""]
Options(outputPath) == [isNull |-> FALSE, aspectRatio |-> "1:1", outputPath |-> outputPath]

\* the property names the supportedAspectRatios object inherits from
\* Object.prototype
ObjectPrototypeNames ==
    {"constructor", "toString", "valueOf", "hasOwnProperty", "isPrototypeOf",
     "propertyIsEnumerable", "toLocaleString", "__proto__"}

\* this.supportedAspectRatios.hasOwnProperty(aspectRatio)
isValidAspectRatio(aspectRatio) == aspectRatio \in supportedAspectRatios

\* whether this.supportedAspectRatios[aspectRatio] is truthy: an own entry
\* or an inherited property (a function or Object.prototype itself)
supportedAspectRatios_truthy(aspectRatio) ==
    aspectRatio \in supportedAspectRatios \cup ObjectPrototypeNames

\* generateImage up to the backend request: destructuring a null options
\* argument throws a TypeError, an aspect ratio whose table lookup is falsy
\* throws
generateImage_entry(options) ==
    IF options.isNull THEN "TypeError"
    ELSE IF ~supportedAspectRatios_truthy(options.aspectRatio)
    THEN "Unsupported aspect ratio"
    ELSE "request"

\* the options of a session's generateImage call: {...options, iterative,
\* previousImagePath, model}, with the path the image is written to
SessionOptions(aspectRatio, outputPath, previousImagePath) ==
    [isNull |-> FALSE, aspectRatio |-> aspectRatio, outputPath |-> outputPath,
     previousImagePath |-> previousImagePath]

\* the aspect ratios a session is created with
AspectArgs == supportedAspectRatios \cup {"7:3", "1:2", "", "constructor", "toString"}

\* the refinement prompts refine() is called with
RefinePrompts == {"make it blue", "add a hat"}

\* the options generateAnimatedGif destructures, with its defaults, for
\* generateMultipleGifs(prompt, animationTypes, {frameCount})
generateAnimatedGif_options(frameCount, animationType) ==
    [frameCount |-> frameCount, animationType |-> animationType, width |-> 512,
     height |-> 512, delay |-> 500, quality |-> 80, keepFrames |-> FALSE]

\* the call is not awaited: the loop goes on to the next index at once
AwaitCall_notAwaited(entered, index) == [pc |-> "loop", i |-> index + 1]

\* `await generateImage(...)`: the loop is suspended until the call settles
AwaitCall(entered, index) == [pc |-> entered, i |-> index]

\* the catch block of the frame loop: log the error and `throw error`
LoopCatch(index) == [pc |-> "thrown", i |-> index]

\* the frame files createGif is called with directly, and its output path
AsmPaths == {"frame_00.png", "frame_01.png", "frame_02.png"}
AsmOutput == "output/gifs/out.gif"
PathLists == UNION {[1..n -> AsmPaths] : n \in 0..MaxPaths}

\* the services of the legacy generator
fallbackServices == {"openai", "stability"}
Environments ==
    [keys : SUBSET ({"gemini"} \cup fallbackServices), down : SUBSET fallbackServices,
     corrupt : {{}}, writable : {TRUE}]

Init ==
    /\ planOut = NoPlan
    /\ \/ /\ kind = "gif"
          /\ basePrompt \in RunPrompts
          /\ planFrames = 0
          /\ stub \in SUBSET (0..(MaxFrames - 1))
          /\ env = NoEnv
          /\ opts \in [frames : FramesArgs, delay : DelayArgs, quality : QualityArgs,
                       animation : AnimationArgs, keepFrames : BOOLEAN]
          /\ types = <<>>
          /\ req = NoReq
          /\ pc = "handleGenerate"
          /\ framePaths = <<>>
          /\ files = {}
       \/ /\ kind = "multi"
          /\ basePrompt \in RunPrompts
          /\ planFrames = 0
          /\ stub \in SUBSET (0..(MaxFrames - 1))
          /\ env = NoEnv
          /\ opts = NoArgv
          /\ types \in TypeLists
          /\ req \in {generateAnimatedGif_options(n, "") : n \in MinFrameCount..MaxFrames}
          /\ pc = "generateMultipleGifs"
          /\ framePaths = <<>>
          /\ files = {}
       \/ /\ kind = "frames"
          /\ basePrompt \in RunPrompts
          /\ planFrames = 0
          /\ stub \in SUBSET (0..(MaxFrames - 1))
          /\ env = NoEnv
          /\ opts = NoArgv
          /\ types = <<>>
          /\ req \in {[NoReq EXCEPT !.frameCount = n] : n \in 1..MaxFrames}
          /\ pc = "generateAnimationFrames"
          /\ framePaths = <<>>
          /\ files = {}
       \/ /\ kind = "legacy"
          /\ basePrompt \in RunPrompts
          /\ planFrames \in 0..MaxFrames
          /\ stub \in SUBSET (0..(MaxFrames - 1))
          /\ env \in Environments
          /\ opts = NoArgv
          /\ types = <<>>
          /\ req = NoReq
          /\ pc = "legacy.generateAnimatedGif"
          /\ framePaths = <<>>
          /\ files = {}
       \/ /\ kind = "style"
          /\ basePrompt \in RunPrompts
          /\ planFrames = 0
          /\ stub \in SUBSET (0..(MaxFrames - 1))
          /\ env = NoEnv
          /\ opts \in {[NoArgv EXCEPT !.frames = f] : f \in StyleFramesArgs}
          /\ types = <<>>
          /\ req = NoReq
          /\ pc = "handleStyleAnimation"
          /\ framePaths = <<>>
          /\ files \in {{}, {ReferenceImage}}
       \/ /\ kind = "session"
          /\ basePrompt \in RunPrompts
          /\ planFrames = 0
          /\ stub \in SUBSET (0..(MaxFrames - 1))
          /\ env = NoEnv
          /\ opts = NoArgv
          /\ types = <<>>
          /\ req = NoReq
          /\ pc = "session"
          /\ framePaths = <<>>
          /\ files = {}
       \/ /\ kind = "assemble"
          /\ basePrompt = ""
          /\ planFrames = 0
          /\ stub = {}
          /\ files \in SUBSET AsmPaths
          /\ env \in [keys : {{}}, down : {{}}, corrupt : SUBSET files,
                      writable : BOOLEAN]
          /\ opts = NoArgv
          /\ types = <<>>
          /\ req = NoReq
          /\ pc = "createGif"
          /\ framePaths \in PathLists
    /\ t = 0
    /\ i = 0
    /\ calls = <<>>
    /\ inFlight = {}
    /\ requests = <<>>
    /\ failed = {}
    /\ dirs = {}
    /\ assembler = <<>>
    /\ results = <<>>
    /\ tried = <<>>
    /\ session \in IF kind = "session" THEN {NewSession(a) : a \in AspectArgs}
                   ELSE {NoSession}
    /\ result = NoResult

\* CLICommands.handleGenerate, GIF mode: parse the options and call
\* GifCommands.generateGif, which calls GifGenerator.generateAnimatedGif
HandleGenerate ==
    /\ kind = "gif"
    /\ pc = "handleGenerate"
    /\ req' = handleGenerate_options(CommanderOptions(opts))
    /\ pc' = "generateAnimatedGif"
    /\ UNCHANGED <<inputVars, planOut, session, tried, t, i, calls, inFlight, requests,
                   failed, framePaths, files, dirs, assembler, results, result>>

\* GifGenerator.generateMultipleGifs: the loop over animationTypes, up to
\* the awaited generateAnimatedGif(prompt, {...options, animationType,
\* keepFrames: false}); after the last type the results are returned
GenerateMultipleGifs ==
    /\ kind = "multi"
    /\ pc = "generateMultipleGifs"
    /\ IF t < Len(types)
       THEN /\ req' = [req EXCEPT !.animationType = types[t + 1], !.keepFrames = FALSE]
            /\ pc' = "generateAnimatedGif"
            /\ UNCHANGED result
       ELSE /\ result' = [NoResult EXCEPT !.status = "returned"]
            /\ pc' = "done"
            /\ UNCHANGED req
    /\ UNCHANGED <<inputVars, planOut, session, tried, t, i, calls, inFlight, requests,
                   failed, framePaths, files, dirs, assembler, results>>

\* GifGenerator.generateAnimatedGif up to the call of generateSequence
GenerateAnimatedGif ==
    /\ pc = "generateAnimatedGif"
    /\ dirs' = fs_mkdir(fs_mkdir(dirs, "output/frames"), "output/gifs")
    /\ pc' = "generateSequence"
    /\ UNCHANGED <<inputVars, planOut, session, tried, req, t, i, calls, inFlight,
                   requests, failed, framePaths, files, assembler, results, result>>

\* SequenceGenerator.generateSequence up to the frame loop
GenerateSequence ==
    /\ pc = "generateSequence"
    /\ dirs' = fs_mkdir(dirs, "output/frames")
    /\ framePaths' = <<>>
    /\ i' = 0
    /\ pc' = "loop"
    /\ UNCHANGED <<inputVars, planOut, session, tried, req, t, calls, inFlight,
                   requests, failed, files, assembler, results, result>>

\* NanoBananaIntegration.generateAnimationFrames up to the frame loop
GenerateAnimationFrames ==
    /\ kind = "frames"
    /\ pc = "generateAnimationFrames"
    /\ dirs' = IF "output/frames" \in dirs THEN dirs
               ELSE fs_mkdirSync(dirs, "output/frames")
    /\ framePaths' = <<>>
    /\ i' = 0
    /\ pc' = "loop"
    /\ UNCHANGED <<inputVars, planOut, session, tried, req, t, calls, inFlight,
                   requests, failed, files, assembler, results, result>>

\* one generateImage call of a frame loop, up to its first suspension
FrameCall(framePrompt, animationType, options) ==
    LET entry == generateImage_entry(options)
        next == AwaitCall(IF entry = "request" THEN "backend" ELSE "rejected", i)
        id == Len(calls) + 1
    IN  /\ calls' = Append(calls, [run |-> t, index |-> i, prompt |-> framePrompt,
                                   animationType |-> animationType,
                                   options |-> options])
        /\ inFlight' = inFlight \cup {id}
        /\ requests' = IF entry = "request" THEN Append(requests, id) ELSE requests
        /\ pc' = next.pc
        /\ i' = next.i
        /\ UNCHANGED <<inputVars, planOut, tried, req, t, failed, framePaths, files, dirs,
                       assembler, results, result>>

\* SequenceGenerator.generateSequence, loop body up to the awaited call
\* this.nanoBanana.generateImage(framePrompt, null, framePath)
SequenceFrameCall ==
    /\ kind \in {"gif", "multi"}
    /\ pc = "loop"
    /\ i < req.frameCount
    /\ FrameCall(SequenceGenerator_createFramePrompt(basePrompt, i, req.frameCount,
                                                     req.animationType),
                 req.animationType, NullOptions)
    /\ UNCHANGED session

\* generateAnimationFrames, loop body up to the awaited call
\* this.generateImage(framePrompt, {...options, outputPath})
IntegrationFrameCall ==
    /\ kind = "frames"
    /\ pc = "loop"
    /\ i < req.frameCount
    /\ FrameCall(Integration_createFramePrompt(basePrompt, i, req.frameCount,
                                               Progress(i, req.frameCount)),
                 Integration_detectAnimationType(basePrompt),
                 Options(IntegrationFramePath(i)))
    /\ UNCHANGED session

\* the call the frame loop is waiting for
Current == calls[Len(calls)]

\* generateContent rejects: generateImage logs and rethrows
BackendFails ==
    /\ pc = "backend"
    /\ Current.index \in stub
    /\ pc' = "rejected"
    /\ UNCHANGED <<inputVars, planOut, session, tried, req, t, i, calls, inFlight,
                   requests, failed, framePaths, files, dirs, assembler, results,
                   result>>

\* generateContent answers with image data: generateImage writes the file
\* at outputPath and returns {imagePath, ...}
BackendSucceeds ==
    /\ pc = "backend"
    /\ Current.index \notin stub
    /\ files' = files \cup {Current.options.outputPath}
    /\ pc' = "resolved"
    /\ UNCHANGED <<inputVars, planOut, session, tried, req, t, i, calls, inFlight,
                   requests, failed, framePaths, dirs, assembler, results, result>>

\* the awaited call rejected: the catch block of the loop
FrameFailed ==
    /\ kind # "session"
    /\ pc = "rejected"
    /\ failed' = failed \cup {Len(calls)}
    /\ inFlight' = inFlight \ {Len(calls)}
    /\ pc' = LoopCatch(i).pc
    /\ i' = LoopCatch(i).i
    /\ UNCHANGED <<inputVars, planOut, session, tried, req, t, calls, requests,
                   framePaths, files, dirs, assembler, results, result>>

\* the awaited call resolved: the rest of the loop body.
\* generateAnimationFrames pushes result.imagePath. generateSequence pushes
\* the result object itself and path.basename of it throws into the catch.
FrameSucceeded ==
    /\ kind # "session"
    /\ pc = "resolved"
    /\ IF kind \in {"frames", "style"}
       THEN /\ framePaths' = Append(framePaths, Current.options.outputPath)
            /\ inFlight' = inFlight \ {Len(calls)}
            /\ i' = i + 1
            /\ pc' = "loop"
       ELSE /\ framePaths' = Append(framePaths, "[object Object]")
            /\ inFlight' = inFlight
            /\ i' = i
            /\ pc' = "rejected"
    /\ UNCHANGED <<inputVars, planOut, session, tried, req, t, calls, requests, failed,
                   files, dirs, assembler, results, result>>

\* generateAnimationFrames returns framePaths
FramesReturn ==
    /\ kind = "frames"
    /\ pc = "loop"
    /\ i >= req.frameCount
    /\ result' = [status |-> "returned", gifPath |-> "", framePaths |-> framePaths,
                  frameCount |-> Len(framePaths)]
    /\ pc' = "done"
    /\ UNCHANGED <<inputVars, planOut, session, tried, req, t, i, calls, inFlight,
                   requests, failed, framePaths, files, dirs, assembler, results>>

\* generateSequence returns framePaths: the rest of generateAnimatedGif
\* (empty check, createGif, cleanup, result), then the rest of
\* handleGenerate or the push of the result in generateMultipleGifs
GifAssemble ==
    /\ kind \in {"gif", "multi"}
    /\ pc = "loop"
    /\ i >= req.frameCount
    /\ IF Len(framePaths) = 0
       THEN /\ pc' = "thrown"
            /\ UNCHANGED <<t, files, assembler, results, result>>
       ELSE LET gifPath == GifPath(req.animationType)
                gifSettings == createGif_settings(req.frameCount, req.delay, req.quality)
                delay == gifSettings.delay
                quality == gifSettings.quality
                written == files \cup {gifPath}
                returned == [status |-> "success", gifPath |-> gifPath,
                             framePaths |-> IF req.keepFrames THEN framePaths ELSE <<>>,
                             frameCount |-> Len(framePaths)]
            IN  /\ assembler' = Append(assembler,
                        [by |-> "CanvasGifAssembler", imagePaths |-> framePaths,
                         outputPath |-> gifPath,
                         width |-> req.width, height |-> req.height,
                         delay |-> delay, quality |-> quality,
                         frames |-> createGif_frames(framePaths, files, env.corrupt)])
                /\ files' = IF req.keepFrames THEN written
                            ELSE cleanup(written, framePaths)
                /\ IF kind = "gif"
                   THEN /\ result' = returned
                        /\ pc' = "done"
                        /\ UNCHANGED <<t, results>>
                   ELSE /\ results' = Append(results,
                                [success |-> TRUE, animationType |-> req.animationType])
                        /\ t' = t + 1
                        /\ pc' = "generateMultipleGifs"
                        /\ UNCHANGED result
    /\ UNCHANGED <<inputVars, planOut, session, tried, req, i, calls, inFlight,
                   requests, failed, framePaths, dirs>>

\* the catch block drops the failed type instead of recording it
MultiCatch_dropped(rs, animationType) == rs

\* the catch block of generateMultipleGifs:
\* results.push({success: false, animationType, error})
MultiCatch(rs, animationType) ==
    Append(rs, [success |-> FALSE, animationType |-> animationType])

\* the catch block assembles the frames generated so far instead of
\* rethrowing
Propagate_assemblesPartial ==
    /\ pc = "thrown"
    /\ assembler' = Append(assembler,
            [by |-> "CanvasGifAssembler", imagePaths |-> framePaths,
             outputPath |-> GifPath(req.animationType),
             width |-> req.width, height |-> req.height,
             delay |-> req.delay, quality |-> req.quality,
             frames |-> createGif_frames(framePaths, files, env.corrupt)])
    /\ files' = files \cup {GifPath(req.animationType)}
    /\ result' = [NoResult EXCEPT
                     !.status = IF kind \in {"gif", "style"} THEN "exit1" ELSE "thrown"]
    /\ pc' = "done"
    /\ UNCHANGED <<inputVars, planOut, session, tried, req, t, i, calls, inFlight,
                   requests, failed, framePaths, dirs, results>>

\* an error leaves generateAnimatedGif or generateAnimationFrames:
\* generateAnimatedGif logs and rethrows; then generateGif rethrows and
\* handleGenerate ends the process with exit code 1, generateMultipleGifs
\* pushes {success: false, animationType, error} and goes on with the next
\* type, generateAnimationFrames and the legacy generator throw to their
\* caller
Propagate ==
    /\ pc = "thrown"
    /\ IF kind = "multi"
       THEN /\ results' = MultiCatch(results, req.animationType)
            /\ t' = t + 1
            /\ pc' = "generateMultipleGifs"
            /\ UNCHANGED result
       ELSE /\ result' = [NoResult EXCEPT
                             !.status = IF kind \in {"gif", "style"} THEN "exit1"
                                        ELSE "thrown"]
            /\ pc' = "done"
            /\ UNCHANGED <<t, results>>
    /\ UNCHANGED <<inputVars, planOut, session, tried, req, i, calls, inFlight,
                   requests, failed, framePaths, files, dirs, assembler>>

\* the process is interrupted between two frames (no signal handler is
\* installed): it ends where it is, nothing else runs
Interrupt ==
    /\ kind \in {"gif", "multi", "frames"}
    /\ pc = "loop"
    /\ pc' = "interrupted"
    /\ result' = [NoResult EXCEPT !.status = "interrupted"]
    /\ UNCHANGED <<inputVars, planOut, session, tried, req, t, i, calls, inFlight,
                   requests, failed, framePaths, files, dirs, assembler, results>>

----------------------------------------------------------------------------
(* createGif called directly (kind "assemble")                             *)

\* what a createGif call does with its arguments: the loop over imagePaths
\* adds the frames it can process to the encoder
createGif_call(by) ==
    [by |-> by, imagePaths |-> framePaths, outputPath |-> AsmOutput,
     width |-> 512, height |-> 512, delay |-> 500, quality |-> 80,
     frames |-> createGif_frames(framePaths, files, env.corrupt)]

\* what createGif returns after encoder.finish() and writeFileSync: the
\* output path; the frame count it logs is imagePaths.length
createGif_returned ==
    [status |-> "returned", gifPath |-> AsmOutput, framePaths |-> <<>>,
     frameCount |-> Len(framePaths)]

\* CanvasGifAssembler.createGif(imagePaths, outputPath)
CanvasCreateGif ==
    /\ kind = "assemble"
    /\ pc = "createGif"
    /\ assembler' = Append(assembler, createGif_call("CanvasGifAssembler"))
    /\ IF env.writable
       THEN /\ files' = files \cup {AsmOutput}
            /\ result' = createGif_returned
       ELSE /\ files' = files
            /\ result' = [NoResult EXCEPT !.status = "thrown"]
    /\ pc' = "done"
    /\ UNCHANGED <<inputVars, planOut, session, tried, req, t, i, calls, inFlight,
                   requests, failed, framePaths, dirs, results>>

\* SimpleGifAssembler.createGif(imagePaths, outputPath)
SimpleCreateGif ==
    /\ kind = "assemble"
    /\ pc = "createGif"
    /\ assembler' = Append(assembler, createGif_call("SimpleGifAssembler"))
    /\ IF env.writable
       THEN /\ files' = files \cup {AsmOutput}
            /\ result' = createGif_returned
       ELSE /\ files' = files
            /\ result' = [NoResult EXCEPT !.status = "thrown"]
    /\ pc' = "done"
    /\ UNCHANGED <<inputVars, planOut, session, tried, req, t, i, calls, inFlight,
                   requests, failed, framePaths, dirs, results>>

----------------------------------------------------------------------------
(* The legacy generator (kind "legacy"): GifGenerator of generator.js      *)

\* frames = options.frames || CONFIG.defaultFrames
LegacyFrames == IF planFrames = 0 THEN defaultFrames ELSE planFrames

LegacyTempPath(index) == "temp/frame_" \o padStart(index, 3) \o ".png"
LegacyImagePath == "output/images/generated_image_T.png"
LegacyOutput == "output/animation_T.gif"

\* generateWithFallback: OpenAI if its key is set, then Stability if its key
\* is set, then the placeholder image
generateWithFallback(environment) ==
    LET openai == "openai" \in environment.keys
        openaiOk == openai /\ "openai" \notin environment.down
        stability == ~openaiOk /\ "stability" \in environment.keys
        stabilityOk == stability /\ "stability" \notin environment.down
    IN  [backends |-> (IF openai THEN <<"openai">> ELSE <<>>)
                      \o (IF stability THEN <<"stability">> ELSE <<>>)
                      \o (IF openaiOk \/ stabilityOk THEN <<>> ELSE <<"placeholder">>),
         source |-> IF openaiOk THEN "openai"
                    ELSE IF stabilityOk THEN "stability" ELSE "placeholder"]

\* GifGenerator.generateImage: nano Banana first if it is initialised; its
\* result is an object, so FileUtils.readFile(imagePath) rejects even when
\* the request succeeded, and the fallback chain follows in every case
Legacy_generateImage(environment, index) ==
    LET gemini == "gemini" \in environment.keys
        fallback == generateWithFallback(environment)
    IN  [backends |-> (IF gemini THEN <<"gemini">> ELSE <<>>) \o fallback.backends,
         source |-> fallback.source,
         written |-> IF gemini /\ index \notin stub THEN {LegacyImagePath} ELSE {}]

\* generateAnimatedGif up to the frame loop: ensureDirectories, the
\* defaults, AnimationUtils.generateFramePrompts(prompt, frames)
LegacyGenerateAnimatedGif ==
    /\ kind = "legacy"
    /\ pc = "legacy.generateAnimatedGif"
    /\ dirs' = dirs \cup {"./output", "./temp"}
    /\ planOut' = [op |-> "generateFramePrompts", type |-> detectAnimationType(basePrompt),
                   index |-> 0, total |-> LegacyFrames,
                   out |-> generateFramePrompts(basePrompt, LegacyFrames)]
    /\ i' = 0
    /\ framePaths' = <<>>
    /\ pc' = "legacy.loop"
    /\ UNCHANGED <<inputVars, session, tried, req, t, calls, inFlight, requests, failed,
                   files, assembler, results, result>>

\* one pass of the frame loop: generateImage(framePrompts[i], i, frames),
\* FileUtils.writeFile(imagePath, imageBuffer), imagePaths.push(imagePath)
LegacyFrame ==
    /\ kind = "legacy"
    /\ pc = "legacy.loop"
    /\ i < LegacyFrames
    /\ LET image == Legacy_generateImage(env, i) IN
       /\ tried' = Append(tried, [index |-> i, prompt |-> planOut.out[i + 1],
                                  backends |-> image.backends, source |-> image.source,
                                  path |-> LegacyTempPath(i)])
       /\ files' = files \cup image.written \cup {LegacyTempPath(i)}
    /\ framePaths' = Append(framePaths, LegacyTempPath(i))
    /\ i' = i + 1
    /\ UNCHANGED <<inputVars, planOut, session, req, t, calls, inFlight, requests,
                   failed, dirs, assembler, results, result, pc>>

\* this.createGif(imagePaths, output, delay) and the return. createCanvas
\* is used in createGif without an import of its own: whether the name is
\* bound depends on how the module is built, so both outcomes are possible
LegacyCreateGif ==
    /\ kind = "legacy"
    /\ pc = "legacy.loop"
    /\ i >= LegacyFrames
    /\ \E bound \in BOOLEAN :
          /\ assembler' = Append(assembler,
                  [by |-> "GifGenerator.createGif", imagePaths |-> framePaths,
                   outputPath |-> LegacyOutput, width |-> 512, height |-> 512,
                   delay |-> 500, quality |-> 10,
                   frames |-> IF bound THEN framePaths ELSE <<>>])
          /\ IF bound
             THEN /\ files' = files \cup {LegacyOutput}
                  /\ result' = [status |-> "success", gifPath |-> LegacyOutput,
                                framePaths |-> framePaths, frameCount |-> Len(framePaths)]
                  /\ pc' = "done"
             ELSE /\ pc' = "thrown"
                  /\ UNCHANGED <<files, result>>
    /\ UNCHANGED <<inputVars, planOut, session, tried, req, t, i, calls, inFlight,
                   requests, failed, framePaths, dirs, results>>

----------------------------------------------------------------------------
(* The style-animation command                                             *)

\* CLICommands.handleStyleAnimation up to the call of
\* integration.generateStyleAnimationFrames(imagePath, animationPrompt,
\* frameCount, CONFIG.tempDir)
HandleStyleAnimation ==
    /\ kind = "style"
    /\ pc = "handleStyleAnimation"
    /\ req' = handleStyleAnimation_options(CommanderOptions(opts))
    /\ pc' = "generateStyleAnimationFrames"
    /\ UNCHANGED <<inputVars, planOut, session, tried, t, i, calls, inFlight, requests,
                   failed, framePaths, files, dirs, assembler, results, result>>

\* generateStyleAnimationFrames up to the frame loop
GenerateStyleAnimationFrames ==
    /\ kind = "style"
    /\ pc = "generateStyleAnimationFrames"
    /\ dirs' = IF "temp" \in dirs THEN dirs ELSE fs_mkdirSync(dirs, "temp")
    /\ framePaths' = <<>>
    /\ i' = 0
    /\ pc' = "loop"
    /\ UNCHANGED <<inputVars, planOut, session, tried, req, t, calls, inFlight, requests,
                   failed, files, assembler, results, result>>

\* generateStyleAnimationFrames, loop body up to the awaited
\* imageToImageGeneration(referenceImagePath, frameStyle, outputPath), which
\* throws when the reference image does not exist and otherwise calls
\* imageEditing, that is generateImage(enhancedPrompt, {...options,
\* outputPath, referenceImagePath, model}); the catch block of the loop
\* rethrows
StyleFrameCall ==
    /\ kind = "style"
    /\ pc = "loop"
    /\ i < req.frameCount
    /\ IF ReferenceImage \in files
       THEN FrameCall(enhancedPrompt(createAnimationStylePrompt(
                          basePrompt, i, req.frameCount, Progress(i, req.frameCount))),
                      "style-animation", Options(StyleFramePath(i)))
       ELSE /\ pc' = LoopCatch(i).pc
            /\ UNCHANGED <<inputVars, planOut, tried, req, t, i, calls, inFlight,
                           requests, failed, framePaths, files, dirs, assembler,
                           results, result>>
    /\ UNCHANGED session

\* generateStyleAnimationFrames returned framePaths: handleStyleAnimation
\* calls GifCommands.generateGifFromFrames, which calls
\* this.gifGenerator.assembleGifFromFrames(framePaths, options). GifGenerator
\* has no such method, the call throws a TypeError, generateGifFromFrames
\* logs and rethrows, and the catch block of handleStyleAnimation ends the
\* process with exit code 1
StyleAssemble ==
    /\ kind = "style"
    /\ pc = "loop"
    /\ i >= req.frameCount
    /\ result' = [NoResult EXCEPT !.status = "exit1"]
    /\ pc' = "done"
    /\ UNCHANGED <<inputVars, planOut, session, tried, req, t, i, calls, inFlight,
                   requests, failed, framePaths, files, dirs, assembler, results>>

----------------------------------------------------------------------------
(* createIterativeSession: refine() and reset() of the session object      *)

\* path.resolve(`output/images/generated_image_${Date.now()}.png`) of the
\* call number n
SessionImagePath(n) == "output/images/generated_image_T" \o ToString(n) \o ".png"

\* the pending call of the session, with the iterations and currentImage
\* the session had when the call was made
Pending(op, prompt) ==
    [op |-> op, prompt |-> prompt, iterations |-> session.iterations,
     currentImage |-> session.currentImage]

\* a settled call of the session: the pending call, how it ended, the image
\* path it returned, and the session state it left
Settled(ok, imagePath, iterations, currentImage) ==
    [call |-> session.pending, id |-> Len(calls), ok |-> ok, imagePath |-> imagePath,
     after |-> [iterations |-> iterations, currentImage |-> currentImage]]

\* the refinement put in front of the list instead of at its end
refine_push_front(iterations, prompt, imagePath) ==
    <<[prompt |-> prompt, imagePath |-> imagePath]>> \o iterations

\* this.iterations.push({prompt: refinementPrompt, result})
refine_push(iterations, prompt, imagePath) ==
    Append(iterations, [prompt |-> prompt, imagePath |-> imagePath])

\* session.refine(refinementPrompt) up to the awaited
\* iterativeRefinement(refinementPrompt, this.currentImage, this.options),
\* which calls generateImage with iterative: true and previousImagePath
SessionRefine ==
    /\ kind = "session"
    /\ pc = "session"
    /\ i < MaxFrames
    /\ \E refinementPrompt \in RefinePrompts :
          /\ FrameCall(refinementPrompt, "",
                       SessionOptions(session.aspectRatio, SessionImagePath(i),
                                      session.currentImage))
          /\ session' = [session EXCEPT !.pending = Pending("refine", refinementPrompt)]

\* session.reset() up to the awaited textToImage(this.prompt, this.options):
\* iterations and currentImage are cleared before the call
SessionReset ==
    /\ kind = "session"
    /\ pc = "session"
    /\ i < MaxFrames
    /\ FrameCall(basePrompt, "",
                 SessionOptions(session.aspectRatio, SessionImagePath(i), "null"))
    /\ session' = [session EXCEPT !.iterations = <<>>, !.currentImage = "null",
                                  !.pending = Pending("reset", basePrompt)]

\* the awaited call resolved: refine() pushes {prompt, result} and sets
\* currentImage, reset() sets currentImage; both return the result
SessionResolved ==
    /\ kind = "session"
    /\ pc = "resolved"
    /\ LET imagePath == Current.options.outputPath
           iterations ==
               IF session.pending.op = "refine"
               THEN refine_push(session.iterations, session.pending.prompt, imagePath)
               ELSE session.iterations
       IN  session' = [session EXCEPT
                          !.iterations = iterations,
                          !.currentImage = imagePath,
                          !.pending = NoPending,
                          !.settled = Append(@, Settled(TRUE, imagePath, iterations,
                                                        imagePath))]
    /\ inFlight' = inFlight \ {Len(calls)}
    /\ i' = i + 1
    /\ pc' = "session"
    /\ UNCHANGED <<inputVars, planOut, tried, req, t, calls, requests, failed, framePaths,
                   files, dirs, assembler, results, result>>

\* the awaited call rejected: refine() and reset() have no catch block, the
\* error goes to the caller and the session object stays as it is
SessionRejected ==
    /\ kind = "session"
    /\ pc = "rejected"
    /\ session' = [session EXCEPT
                      !.pending = NoPending,
                      !.settled = Append(@, Settled(FALSE, "", session.iterations,
                                                    session.currentImage))]
    /\ inFlight' = inFlight \ {Len(calls)}
    /\ i' = i + 1
    /\ pc' = "session"
    /\ UNCHANGED <<inputVars, planOut, tried, req, t, calls, requests, failed, framePaths,
                   files, dirs, assembler, results, result>>

Next ==
    \/ HandleGenerate
    \/ GenerateMultipleGifs
    \/ GenerateAnimatedGif
    \/ GenerateSequence
    \/ GenerateAnimationFrames
    \/ SequenceFrameCall
    \/ IntegrationFrameCall
    \/ BackendFails
    \/ BackendSucceeds
    \/ FrameFailed
    \/ FrameSucceeded
    \/ FramesReturn
    \/ GifAssemble
    \/ Propagate
    \/ Interrupt
    \/ CanvasCreateGif
    \/ SimpleCreateGif
    \/ LegacyGenerateAnimatedGif
    \/ LegacyFrame
    \/ LegacyCreateGif
    \/ HandleStyleAnimation
    \/ GenerateStyleAnimationFrames
    \/ StyleFrameCall
    \/ StyleAssemble
    \/ SessionRefine
    \/ SessionReset
    \/ SessionResolved
    \/ SessionRejected

Spec == Init /\ [][Next]_vars

----------------------------------------------------------------------------
(* Properties of the GIF run (specification Spec)                          *)

\* the frame indices 0..n-1 in order
Indices(n) == [k \in 1..n |-> k - 1]

\* the calls made by the frame loop of run r (r = 0 but for "multi")
CallsOf(r) == SelectSeq(calls, LAMBDA c : c.run = r)

\* the frame indices generation was attempted for in run r, in order
Attempted(r) == [k \in 1..Len(CallsOf(r)) |-> CallsOf(r)[k].index]

\* the indices of a run of n frames the stub backend succeeds for, ascending
StubSucceeds(n) == SelectSeq(Indices(n), LAMBDA k : k \notin stub)

\* how often generateImage was called for the frame of call c, in its run
\* and with its prompt
Attempts(c) ==
    Cardinality({d \in 1..Len(calls) :
        /\ calls[d].run = calls[c].run
        /\ calls[d].index = calls[c].index
        /\ calls[d].prompt = calls[c].prompt})

\* C1: when the frame loop is over, generation was attempted for every
\* index 0..N-1 in order, whichever frames failed.
C1_AllIndicesAttempted ==
    (pc = "done" /\ req.frameCount >= 1) =>
        \A r \in 0..t : (kind = "multi" => r < Len(types)) =>
            Attempted(r) = Indices(req.frameCount)

\* C2: a GIF run in which the backend fails for some frames and succeeds
\* for at least one invokes the assembler once, with exactly the frames the
\* backend succeeded for, in ascending index order, and the GIF holds that
\* many frames.
C2_AssemblesSuccessfulFrames ==
    (/\ kind = "gif"
     /\ pc = "done"
     /\ req.frameCount \in MinFrameCount..MaxFrameCount
     /\ stub \cap (0..(req.frameCount - 1)) # {}
     /\ StubSucceeds(req.frameCount) # <<>>)
    => /\ Len(assembler) = 1
       /\ assembler[1].imagePaths =
            [k \in 1..Len(StubSucceeds(req.frameCount)) |->
                SequenceFramePath(StubSucceeds(req.frameCount)[k])]
       /\ Len(assembler[1].frames) = Len(StubSucceeds(req.frameCount))

\* C3: with a backend that succeeds on every call, a GIF run of N frames
\* ends in success with frameCount = N, and the assembler was given the N
\* frame files of indices 0..N-1 in order and put all of them in the GIF.
C3_AllFramesAssembled ==
    (/\ kind = "gif"
     /\ pc = "done"
     /\ req.frameCount \in MinFrameCount..MaxFrameCount
     /\ stub \cap (0..(req.frameCount - 1)) = {})
    => /\ result.status = "success"
       /\ result.frameCount = req.frameCount
       /\ Len(assembler) = 1
       /\ assembler[1].imagePaths =
            [k \in 1..req.frameCount |-> SequenceFramePath(k - 1)]
       /\ assembler[1].frames = assembler[1].imagePaths

C5_RetriedBeforeFailed ==
    \A c \in failed :
        (\E r \in 1..Len(requests) : requests[r] = c) => Attempts(c) >= maxRetries

\* a numeric option value the caller passed that lies outside lo..hi
OutOfRange(arg, lo, hi) ==
    /\ arg # <<>>
    /\ ~parseInt(arg[1]).nan
    /\ parseInt(arg[1]).v \notin lo..hi

\* C6: a GIF request with an out-of-range frame count, delay or quality is
\* rejected by handleGenerate: the command fails without entering the
\* generator, with no generation call, no backend request, no file and no
\* directory made.
C6_InvalidRequestRejected ==
    (/\ kind = "gif"
     /\ \/ OutOfRange(opts.frames, MinFrameCount, MaxFrameCount)
        \/ OutOfRange(opts.delay, MinDelay, MaxDelay)
        \/ OutOfRange(opts.quality, MinQuality, MaxQuality))
    => /\ pc \in {"handleGenerate", "done"}
       /\ pc = "done" => result.status = "exit1"
       /\ calls = <<>>
       /\ requests = <<>>
       /\ files = {}
       /\ dirs = {}

\* C7: when no animation type is passed, every frame prompt of the GIF run
\* is built with the category the classifier gives for the base prompt.
C7_ClassifiedWhenNotPassed ==
    (kind = "gif" /\ opts.animation = <<>>)
    => \A c \in 1..Len(calls) : calls[c].animationType = detectAnimationType(basePrompt)

\* C15: createGif called with an empty list of frames fails and neither
\* returns a path nor writes the file at outputPath.
C15_EmptyListRejected ==
    (kind = "assemble" /\ framePaths = <<>> /\ pc = "done") =>
        /\ result.status = "thrown"
        /\ result.gifPath = ""
        /\ AsmOutput \notin files

\* C16: whenever createGif returns, the GIF holds one frame per input path,
\* in input order, and as many frames as the count it reports
\* (imagePaths.length).
C16_OneFramePerPath ==
    (kind = "assemble" /\ pc = "done" /\ result.status = "returned") =>
        /\ assembler[1].frames = framePaths
        /\ Len(assembler[1].frames) = result.frameCount

\* the files of the frames generated so far in the run
FramesWritten == {framePaths[k] : k \in 1..Len(framePaths)}

\* the run stopped before all its frames were generated
StoppedEarly ==
    /\ kind \in {"gif", "multi", "frames"}
    /\ \/ pc \in {"thrown", "interrupted"}
       \/ pc = "done" /\ result.status \in {"exit1", "thrown"}
    /\ Len(framePaths) < req.frameCount

\* C17: when a GIF run stops before all frames are generated (a frame's
\* generation throws or the run is interrupted between frames), the
\* assembler has not been invoked for it, no GIF file is written, and the
\* frame files written for earlier indices are still in place.
C17_NoAssemblyAfterStop ==
    StoppedEarly =>
        /\ \A k \in 1..Len(assembler) : assembler[k].outputPath # GifPath(req.animationType)
        /\ GifPath(req.animationType) \notin files
        /\ FramesWritten \subseteq files
        /\ kind \in {"gif", "frames"} => assembler = <<>>

\* C17 witness: a generate --gif run of at least two frames that failed at
\* its first frame and ended with exit code 1.
C17_Witness ==
    /\ kind = "gif"
    /\ pc = "done"
    /\ result.status = "exit1"
    /\ req.frameCount >= 2
    /\ Len(calls) = 1
    /\ failed = {1}
    /\ assembler = <<>>

\* C18: the sequence given to the assembler never holds a placeholder image
\* in place of a frame that the primary backend failed to generate (the
\* caller cannot ask for placeholder fill, so the default applies).
C18_NoPlaceholderFrames ==
    kind = "legacy" =>
        \A a \in 1..Len(assembler) : \A k \in 1..Len(assembler[a].imagePaths) :
            \A f \in 1..Len(tried) :
                tried[f].path = assembler[a].imagePaths[k] => tried[f].source # "placeholder"

\* C20: generateMultipleGifs records one result per animation type handled
\* so far, in request order, goes on after a failed type, and returns one
\* result per requested type without throwing.
C20_OneResultPerType ==
    kind = "multi" =>
        /\ Len(results) = t
        /\ t <= Len(types)
        /\ \A k \in 1..Len(results) : results[k].animationType = types[k]
        /\ result.status \notin {"thrown", "exit1"}
        /\ pc = "done" => (Len(results) = Len(types) /\ result.status = "returned")

\* C20 witness: generateMultipleGifs returned three results after the first
\* two types failed.
C20_Witness ==
    /\ kind = "multi"
    /\ pc = "done"
    /\ result.status = "returned"
    /\ Len(results) = 3
    /\ ~results[1].success
    /\ ~results[2].success
    /\ results[3].animationType = types[3]

----------------------------------------------------------------------------
(* Properties of the planner (specification SpecPlan)                      *)

\* the categories in the order the classifier checks them
categoryOrder == <<WALKING, FLYING, DANCING, TRANSFORMATION, FLOWING, ROTATING>>

\* the keywords of a category
keywordsOf(type) ==
    CASE type = WALKING -> {"walk", "running", "moving"}
      [] type = FLYING -> {"fly", "flying", "soar"}
      [] type = DANCING -> {"dance", "dancing"}
      [] type = TRANSFORMATION -> {"grow", "bloom", "transform"}
      [] type = FLOWING -> {"wave", "ocean", "water"}
      [] type = ROTATING -> {"spin", "rotate", "turn"}

\* the positions in categoryOrder of the categories with a keyword in text
Hits(text) ==
    {n \in 1..Len(categoryOrder) :
        \E word \in keywordsOf(categoryOrder[n]) : Includes(text, word)}

\* C8: detectAnimationType always returns a category, and it is the first
\* category in the order walking, flying, dancing, transformation, flowing,
\* rotating with a keyword occurring in the lower-cased prompt, or general
\* when no keyword occurs.
C8_FirstMatchingCategory ==
    planOut.op = "detectAnimationType" =>
        LET hits == Hits(toLowerCase(basePrompt)) IN
        /\ planOut.type \in animationTypes
        /\ hits = {} => planOut.type = GENERAL
        /\ hits # {} =>
              planOut.type = categoryOrder[CHOOSE n \in hits : \A m \in hits : n <= m]

\* C8 witness: a prompt with keywords of two categories, written in upper
\* case, was classified as the earlier of the two.
C8_Witness ==
    /\ planOut.op = "detectAnimationType"
    /\ basePrompt = "Dance FLY"
    /\ Cardinality(Hits(toLowerCase(basePrompt))) = 2
    /\ planOut.type = FLYING

\* C9: for frameCount >= 2 the prompt generateFramePrompts emits for index
\* i contains "frame {i+1} of {frameCount}".
C9_FrameMarkerInEveryPrompt ==
    (planOut.op = "generateFramePrompts" /\ planOut.total >= 2) =>
        \A k \in 1..planOut.total :
            Includes(planOut.out[k],
                     "frame " \o ToString(k) \o " of " \o ToString(planOut.total))

\* C10: for every category and index, the prompt createFramePrompt builds
\* carries a consistency instruction ("consistent ..." or "same ...") after
\* the base prompt and phase descriptor.
C10_ConsistencyInEveryPrompt ==
    planOut.op = "createFramePrompt" =>
        LET text == planOut.out[1]
            rest == SubSeq(text, Len(basePrompt) + 1, Len(text))
        IN  Includes(rest, "consistent ") \/ Includes(rest, "same ")

\* the text of a frame prompt after the base prompt and ", "
AfterBase(text) == SubSeq(text, Len(basePrompt) + 3, Len(text))

\* the part of s before its first comma
RECURSIVE UpToComma(_)
UpToComma(s) ==
    IF s = "" \/ SubSeq(s, 1, 1) = "," THEN ""
    ELSE SubSeq(s, 1, 1) \o UpToComma(SubSeq(s, 2, Len(s)))

\* the phase descriptor of a frame prompt: what follows the base prompt
Descriptor(text) == UpToComma(AfterBase(text))

\* the categories whose descriptors are cycled, and their lists
cyclicTypes == {WALKING, FLYING, DANCING, FLOWING, GENERAL}
phaseList(type) ==
    CASE type = WALKING -> walkCycle
      [] type = FLYING -> flyPositions
      [] type = DANCING -> dancePositions
      [] type = FLOWING -> waveHeights
      [] type = GENERAL -> positions

\* C11: for the cyclic categories the prompt of index i carries the entry
\* (i mod 4) of the category's 4-entry list: frames i and i+4 carry the same
\* descriptor and a 4-frame plan carries entries 0,1,2,3 in order.
C11_CyclicDescriptor ==
    /\ (planOut.op = "createFramePrompt" /\ planOut.type \in cyclicTypes) =>
          /\ Len(phaseList(planOut.type)) = 4
          /\ Descriptor(planOut.out[1]) = phaseList(planOut.type)[(planOut.index % 4) + 1]
    /\ (planOut.op = "generateFramePrompts" /\ planOut.type \in cyclicTypes) =>
          /\ \A k \in 1..planOut.total :
                Descriptor(planOut.out[k]) = phaseList(planOut.type)[((k - 1) % 4) + 1]
          /\ \A k \in 1..(planOut.total - 4) :
                Descriptor(planOut.out[k]) = Descriptor(planOut.out[k + 4])
          /\ planOut.total = 4 =>
                [k \in 1..4 |-> Descriptor(planOut.out[k])] = phaseList(planOut.type)

\* C11 witness: an 8-frame flying plan whose fifth frame is back at the
\* first wing position.
C11_Witness ==
    /\ planOut.op = "generateFramePrompts"
    /\ planOut.type = FLYING
    /\ planOut.total = 8
    /\ Descriptor(planOut.out[4]) = "wings mid-flap"
    /\ Descriptor(planOut.out[5]) = "wings up"

\* the angle a rotating frame prompt embeds
AngleOf(text) == parseInt(SubSeq(text, Len(basePrompt) + Len(", rotated ") + 1, Len(text)))

\* round(360 * index / frameCount) in integer arithmetic
ExpectedAngle(index, frameCount) == (2 * 360 * index + frameCount) \div (2 * frameCount)

\* C12: the rotating prompt of index i embeds round(360*i/frameCount)
\* degrees; for frameCount in 2..20 the angles start at 0, strictly
\* increase with the index and stay below 360.
C12_RotationAngles ==
    /\ (planOut.op = "createFramePrompt" /\ planOut.type = ROTATING) =>
          AngleOf(planOut.out[1]) = Num(ExpectedAngle(planOut.index, planOut.total))
    /\ (/\ planOut.op = "generateFramePrompts"
        /\ planOut.type = ROTATING
        /\ planOut.total \in MinFrameCount..MaxFrameCount) =>
          /\ \A k \in 1..planOut.total :
                /\ AngleOf(planOut.out[k]) = Num(ExpectedAngle(k - 1, planOut.total))
                /\ AngleOf(planOut.out[k]).v < 360
          /\ AngleOf(planOut.out[1]).v = 0
          /\ \A k \in 1..(planOut.total - 1) :
                AngleOf(planOut.out[k]).v < AngleOf(planOut.out[k + 1]).v

\* C12 witness: a 4-frame rotating plan with the angles 0, 90, 180, 270.
C12_Witness ==
    /\ planOut.op = "generateFramePrompts"
    /\ planOut.type = ROTATING
    /\ planOut.total = 4
    /\ [k \in 1..4 |-> AngleOf(planOut.out[k]).v] = <<0, 90, 180, 270>>

\* the percent an interior transformation frame prompt embeds
PercentOf(text) == parseInt(AfterBase(text))

\* round(100 * index / (frameCount - 1)) in integer arithmetic
ExpectedPercent(index, frameCount) ==
    (2 * 100 * index + (frameCount - 1)) \div (2 * (frameCount - 1))

\* C13: a transformation plan of 3..20 frames has the initial state phrase
\* only at index 0, the final state phrase only at the last index, and at
\* each interior index i the percent round(100*i/(frameCount-1)), strictly
\* increasing and strictly between 0 and 100.
C13_TransformationPercents ==
    (/\ planOut.op = "generateFramePrompts"
     /\ planOut.type = TRANSFORMATION
     /\ planOut.total \in 3..MaxFrameCount) =>
        /\ \A k \in 1..planOut.total :
              /\ Includes(planOut.out[k], "initial state") <=> k = 1
              /\ Includes(planOut.out[k], "final state") <=> k = planOut.total
        /\ \A k \in 2..(planOut.total - 1) :
              /\ PercentOf(planOut.out[k]) = Num(ExpectedPercent(k - 1, planOut.total))
              /\ Includes(planOut.out[k],
                          ToString(ExpectedPercent(k - 1, planOut.total)) \o "% transformed")
              /\ PercentOf(planOut.out[k]).v > 0
              /\ PercentOf(planOut.out[k]).v < 100
        /\ \A k \in 2..(planOut.total - 2) :
              PercentOf(planOut.out[k]).v < PercentOf(planOut.out[k + 1]).v

\* C13 witness: a 5-frame transformation plan with the percents 25, 50, 75.
C13_Witness ==
    /\ planOut.op = "generateFramePrompts"
    /\ planOut.type = TRANSFORMATION
    /\ planOut.total = 5
    /\ [k \in 1..3 |-> PercentOf(planOut.out[k + 1]).v] = <<25, 50, 75>>

\* C14: for frameCount = 1 the progress of index 0 is 0, never 0/0, and no
\* NaN or undefined reaches the prompt text, in generateFramePrompts and in
\* SequenceGenerator.createFramePrompt.
C14_ProgressDefinedForOneFrame ==
    /\ (planOut.op = "generateFramePrompts" /\ planOut.total = 1) =>
          /\ Progress(0, planOut.total).den # 0
          /\ ~Includes(planOut.out[1], "NaN")
          /\ ~Includes(planOut.out[1], "undefined")
    /\ (planOut.op = "SequenceGenerator.createFramePrompt" /\ planOut.total = 1) =>
          /\ SeqProgress(planOut.index, planOut.total).den # 0
          /\ ~Includes(planOut.out[1], "NaN")
          /\ ~Includes(planOut.out[1], "undefined")

\* the bucket table of the optimal settings
ExpectedSettings(frameCount) ==
    CASE frameCount <= 3 -> [delay |-> 800, quality |-> 90]
      [] frameCount \in 4..5 -> [delay |-> 600, quality |-> 85]
      [] frameCount \in 6..8 -> [delay |-> 400, quality |-> 80]
      [] OTHER -> [delay |-> 300, quality |-> 75]

\* C19: getOptimalSettings is the bucket lookup (<= 3: 800/90, <= 5:
\* 600/85, <= 8: 400/80, else 300/75), its delay and quality do not
\* increase with frameCount, and the copies in GifGenerator and
\* GifAssembler return the same pair.
C19_OptimalSettings ==
    planOut.op = "getOptimalSettings" =>
        /\ planOut.out[1] = ExpectedSettings(planOut.total)
        /\ planOut.out[2] = planOut.out[1]
        /\ \A m \in 0..planOut.total :
              /\ getOptimalSettings(m).delay >= planOut.out[1].delay
              /\ getOptimalSettings(m).quality >= planOut.out[1].quality
              /\ GifAssembler_getOptimalSettings(m).delay >= planOut.out[2].delay
              /\ GifAssembler_getOptimalSettings(m).quality >= planOut.out[2].quality

\* C19 witness: both copies asked for 4 frames, the first frame count of
\* the second bucket.
C19_Witness ==
    /\ planOut.op = "getOptimalSettings"
    /\ planOut.total = 4
    /\ planOut.out = <<[delay |-> 600, quality |-> 85], [delay |-> 600, quality |-> 85]>>

\* the errors a validation result lists
ErrorsOf(r) == {r.errors[k] : k \in 1..Len(r.errors)}

\* C23: validateAnimationParams returns isValid = false with the matching
\* message for every frames outside 2..20 and every delay outside
\* 100..2000, 0 and negative values included, and isValid = true when the
\* prompt is a non-empty string and both values are in range.
C23_OutOfRangeRejected ==
    planOut.op = "validateAnimationParams" =>
        LET params == planOut.out[1].params
            r == planOut.out[1].result
        IN  /\ params.frames \notin MinFrameCount..MaxFrameCount =>
                  /\ ~r.isValid
                  /\ "Frame count must be between 2 and 20" \in ErrorsOf(r)
            /\ params.delay \notin MinDelay..MaxDelay =>
                  /\ ~r.isValid
                  /\ "Delay must be between 100ms and 2000ms" \in ErrorsOf(r)
            /\ (/\ params.prompt.type = "string"
                /\ params.prompt.v # ""
                /\ params.frames \in MinFrameCount..MaxFrameCount
                /\ params.delay \in MinDelay..MaxDelay) => r.isValid

\* C24: for frameCount in 2..20 the phase position
\* floor(progress/100 * 5) of SequenceGenerator.createFramePrompt is within
\* 0..4 at every index, so no prompt carries an undefined phase.
C24_PhaseWithinTable ==
    (/\ planOut.op = "SequenceGenerator.createFramePrompt"
     /\ planOut.total \in MinFrameCount..MaxFrameCount
     /\ toLowerCase(planOut.type) # ROTATING) =>
        LET position == phaseIndex(SeqProgress(planOut.index, planOut.total),
                                   generalPhases)
        IN  /\ ~position.nan
            /\ position.v \in 0..(Len(generalPhases) - 1)
            /\ ~Includes(planOut.out[1], "undefined")

\* the angle a SequenceGenerator rotating prompt embeds
SeqAngleOf(text) ==
    parseInt(SubSeq(text, Len(basePrompt) + Len(", rotating motion: ") + 1, Len(text)))

\* C25: the angle of SequenceGenerator's rotating prompt at index i equals
\* AnimationUtils's round(360 * i / frameCount) for every frameCount in
\* 2..20.
C25_SameRotationAngle ==
    (/\ planOut.op = "SequenceGenerator.createFramePrompt"
     /\ planOut.type = ROTATING
     /\ planOut.total \in MinFrameCount..MaxFrameCount) =>
        SeqAngleOf(planOut.out[1]) = rotationAngle(planOut.index, planOut.total)

\* C26: when the caller omits delay and quality, generateAnimatedGif
\* assembles the GIF with getOptimalSettings(frameCount); when the caller
\* supplies them, exactly the supplied values are passed to the assembler;
\* result.settings reports the values that were passed.
C26_OptimalSettingsWhenOmitted ==
    planOut.op = "generateAnimatedGif.settings" =>
        LET o == planOut.out[1] IN
        /\ (~o.delay.given /\ ~o.quality.given) =>
              o.createGif = getOptimalSettings(planOut.total)
        /\ o.delay.given => o.createGif.delay = o.delay.v
        /\ o.quality.given => o.createGif.quality = o.quality.v
        /\ o.settings = o.createGif

\* the refinements settled after the last reset, in call order
SinceLastReset(settled) ==
    LET resets == {k \in 1..Len(settled) : settled[k].call.op = "reset"}
        last == IF resets = {} THEN 0
                ELSE CHOOSE k \in resets : \A m \in resets : m <= k
    IN  [k \in 1..(Len(settled) - last) |->
            [prompt |-> settled[last + k].call.prompt,
             imagePath |-> settled[last + k].imagePath]]

\* C21: after any sequence of successful reset() and refine() calls on a
\* session, currentImage is the imagePath returned by the most recent call,
\* iterations holds exactly the refinements made since the last reset in
\* call order, and each refine() passed the then-current currentImage as
\* the previous image.
C21_SessionTracksCalls ==
    (/\ kind = "session"
     /\ pc = "session"
     /\ \A k \in 1..Len(session.settled) : session.settled[k].ok) =>
        LET settled == session.settled
            n == Len(settled)
        IN  /\ session.currentImage = IF n = 0 THEN "null" ELSE settled[n].imagePath
            /\ session.iterations = SinceLastReset(settled)
            /\ \A k \in 1..n :
                  settled[k].call.op = "refine" =>
                      calls[settled[k].id].options.previousImagePath
                          = IF k = 1 THEN "null" ELSE settled[k - 1].imagePath

\* C21 witness: refine, reset, refine, refine all succeeded; the session
\* holds the two refinements made after the reset and the last image.
C21_Witness ==
    /\ kind = "session"
    /\ pc = "session"
    /\ Len(session.settled) = 4
    /\ \A k \in 1..4 : session.settled[k].ok
    /\ [k \in 1..4 |-> session.settled[k].call.op]
           = <<"refine", "reset", "refine", "refine">>
    /\ [k \in 1..2 |-> session.iterations[k].prompt] = <<"add a hat", "make it blue">>
    /\ session.currentImage = SessionImagePath(3)
    /\ calls[4].options.previousImagePath = SessionImagePath(2)

\* the ten aspect ratios the integration supports
TenRatios == {"1:1", "2:3", "3:2", "3:4", "4:3", "4:5", "5:4", "9:16", "16:9", "21:9"}

\* C22: isValidAspectRatio is true exactly for the ten supported ratios,
\* and a generateImage call with any other aspect ratio fails before any
\* backend request is made and before any file is written.
C22_UnsupportedRatioRejected ==
    kind = "session" =>
        /\ isValidAspectRatio(session.aspectRatio) <=> session.aspectRatio \in TenRatios
        /\ session.aspectRatio \notin TenRatios =>
              /\ requests = <<>>
              /\ files = {}
              /\ pc \notin {"backend", "resolved"}
              /\ \A k \in 1..Len(session.settled) : ~session.settled[k].ok

\* C28: a refine() or reset() that fails leaves the session as it was
\* before the call: iterations and currentImage are unchanged.
C28_FailedCallLeavesSession ==
    kind = "session" =>
        \A k \in 1..Len(session.settled) :
            ~session.settled[k].ok =>
                /\ session.settled[k].after.iterations
                       = session.settled[k].call.iterations
                /\ session.settled[k].after.currentImage
                       = session.settled[k].call.currentImage

\* C30: once generateStyleAnimationFrames has returned the N frame paths,
\* the style-animation command assembles them in index order into exactly
\* one GIF through generateGifFromFrames and reports success; it exits
\* with a non-zero code only if frame generation or assembly fails.
C30_StyleFramesAssembled ==
    (/\ kind = "style"
     /\ pc = "done"
     /\ Len(framePaths) = req.frameCount) =>
        /\ framePaths = [k \in 1..req.frameCount |-> StyleFramePath(k - 1)]
        /\ Len(assembler) = 1
        /\ assembler[1].imagePaths = framePaths
        /\ result.status = "success"

\* the frame files of a GIF run with n frames, in index order
GifFrameFiles(n) == [k \in 1..n |-> SequenceFramePath(k - 1)]

\* C27: frame files are deleted only after the GIF file has been written:
\* with keepFrames = false every generated frame file is deleted after
\* assembly and result.framePaths is empty; with keepFrames = true no frame
\* file is deleted and result.framePaths lists all generated frames in
\* index order; while no GIF is written no frame file is deleted.
C27_FramesDeletedAfterGif ==
    (/\ kind = "gif"
     /\ pc = "done"
     /\ req.frameCount \in MinFrameCount..MaxFrames) =>
        LET all == GifFrameFiles(req.frameCount)
            gifPath == GifPath(req.animationType)
            written == {calls[requests[k]].options.outputPath : k \in 1..Len(requests)}
        IN  /\ (stub \cap 0..(req.frameCount - 1) = {} /\ req.keepFrames) =>
                  /\ gifPath \in files
                  /\ result.framePaths = all
                  /\ \A k \in 1..Len(all) : all[k] \in files
            /\ (stub \cap 0..(req.frameCount - 1) = {} /\ ~req.keepFrames) =>
                  /\ gifPath \in files
                  /\ result.framePaths = <<>>
                  /\ \A k \in 1..Len(all) : all[k] \notin files
            /\ gifPath \notin files =>
                  \A k \in 1..Len(requests) :
                      requests[k] \notin failed =>
                          calls[requests[k]].options.outputPath \in files

\* the order of the legacy generator's backends
chainOrder == <<"gemini", "openai", "stability", "placeholder">>
ChainPosition(backend) == CHOOSE k \in 1..Len(chainOrder) : chainOrder[k] = backend

\* the backend is configured: its API key is set; the placeholder always is
Configured(backend) == backend = "placeholder" \/ backend \in env.keys

\* the backend failed for the frame: the Gemini stub fails for the index, a
\* fallback service is down; the placeholder does not fail
BackendFailed(backend, index) ==
    \/ backend = "gemini" /\ index \in stub
    \/ backend \in fallbackServices /\ backend \in env.down

\* C29: the legacy generateImage tries the backends in the fixed order
\* Gemini, OpenAI, Stability, placeholder; a backend is tried only if it is
\* configured and every earlier one was unconfigured or failed; each is
\* tried at most once per frame; the frame always gets an image, from the
\* last backend tried.
C29_FallbackChain ==
    kind = "legacy" =>
        \A f \in 1..Len(tried) :
            LET backends == tried[f].backends IN
            /\ \A a, b \in 1..Len(backends) :
                  a < b => ChainPosition(backends[a]) < ChainPosition(backends[b])
            /\ \A k \in 1..Len(backends) :
                  /\ Configured(backends[k])
                  /\ \A e \in 1..(ChainPosition(backends[k]) - 1) :
                        \/ ~Configured(chainOrder[e])
                        \/ BackendFailed(chainOrder[e], tried[f].index)
            /\ Len(backends) >= 1
            /\ tried[f].source = backends[Len(backends)]

====
